---- MODULE Spec2Model ----
(***************************************************************************)
(* The poll-dedup-notify loop of belt-user-ops (src/monitor.ts, the        *)
(* Redis-backed monitor, with the Discord sender it calls).                *)
(*                                                                         *)
(* Redis holds one watermark key per (chainId, contract) and one event key *)
(* per event id, the latter with an expiry.  Block numbers travel as       *)
(* decimal strings and are compared through BigInt(); a string is modelled *)
(* as the sequence of its digits, so that the conversion is computed.      *)
(***************************************************************************)
EXTENDS Integers, Sequences, FiniteSets, TLC

VARIABLES
    wm,        \* redis: watermark key -> stored string (Null when the key is unset)
    ev,        \* redis: event id -> second at which the key expires (0: no key)
    now,       \* the clock, in seconds
    calls,     \* history: the shouldNotify calls made one after another
    nadv,      \* history: how often the clock was advanced
    mainPc,    \* main(): where it stands
    cyc,       \* the poll() invocations: position and locals of each
    attempts,  \* history: delivery attempts made so far, per domain event
    anyDelivered, \* history: some attempt so far was answered "delivered"
    upstream,  \* the indexer: the events it has indexed so far
    snd,       \* the Discord sender: its queue, its flags, where it stands
    mem        \* the in-memory monitor: lastCheckedBlock, where its poll stands

vars == <<wm, ev, now, calls, nadv, mainPc, cyc, attempts, anyDelivered, upstream,
          snd, mem>>
otherVars == <<snd, mem>>
ledgerHist == <<calls, nadv, upstream>>
pollVars == <<mainPc, cyc, attempts, anyDelivered>>

----------------------------------------------------------------------------
(* Strings of decimal digits *)

\* redis.get of a missing key answers null; null and "" are both falsy
Null == <<>>

P0 == <<0>>
P9 == <<9>>
P10 == <<1, 0>>
P12 == <<1, 2>>

\* BigInt(s) of a decimal string
RECURSIVE BigInt(_)
BigInt(s) ==
    IF s = <<>> THEN 0
    ELSE 10 * BigInt(SubSeq(s, 1, Len(s) - 1)) + s[Len(s)]

\* a < b on the strings themselves (code units, left to right): what the
\* comparison is when the BigInt() conversion is left out
RECURSIVE StrLt(_, _)
StrLt(a, b) ==
    IF b = <<>> THEN FALSE
    ELSE IF a = <<>> THEN TRUE
    ELSE IF a[1] # b[1] THEN a[1] < b[1]
    ELSE StrLt(Tail(a), Tail(b))

\* BigInt(a) < BigInt(b)
BigIntLt(a, b) == BigInt(a) < BigInt(b)

\* BigInt(a) === BigInt(b)
BigIntEq(a, b) == BigInt(a) = BigInt(b)

\* if (watermark), !watermark
Truthy(s) == s # Null

Max(S) == CHOOSE x \in S : \A y \in S : y <= x
Min(S) == CHOOSE x \in S : \A y \in S : x <= y

----------------------------------------------------------------------------
(* Program constants *)

POLL_INTERVAL_MS == 10000
EVENT_TTL == 60 * 60 * 24 * 30

ChainIds == {369, 1}
Contracts == {"EntryPointV07"}

watermarkKey(chainId, contract) == <<chainId, contract>>

WmKeys == {watermarkKey(ch, co) : ch \in ChainIds, co \in Contracts}

EventIds == {"a", "b", "c", "d"}

\* The upstream records: operation events and deployment events.  A
\* deployment carries the hash of the operation that deployed the account.
UserOpEvent(id, blockNumber, chainId) ==
    [kind |-> "op", id |-> id, blockNumber |-> blockNumber, chainId |-> chainId]
DeploymentEvent(id, blockNumber, chainId) ==
    [kind |-> "deploy", id |-> id, blockNumber |-> blockNumber, chainId |-> chainId]

OpEvents == {UserOpEvent("a", P10, 369), UserOpEvent("b", P10, 369),
             UserOpEvent("c", P12, 369)}
DeployEvents == {DeploymentEvent("d", P10, 369), DeploymentEvent("c", P12, 369)}

AllEvents == OpEvents \cup DeployEvents

----------------------------------------------------------------------------
(* Bounds of the model *)

MaxCalls == 3
MaxAdvance == 1
MaxCycles == 3
MaxBatch == 3
MaxNotifs == 2

----------------------------------------------------------------------------
(* The cursor store and the dedup ledger *)

\* getWatermark: the stored string, '0' when the key is unset
getWatermark(chainId, contract) ==
    LET w == wm[watermarkKey(chainId, contract)]
    IN  IF Truthy(w) THEN w ELSE P0

\* (a variant without the expiry: the key once written stays)
ExistsNoExpiry(eventId) == ev[eventId] > 0

\* redis.exists(EVENT_PREFIX + eventId): the key is there until its expiry
Exists(eventId) == ev[eventId] > now

\* (a variant that also rejects a position equal to the watermark)
StaleOrEqual(watermark, blockNumber) ==
    Truthy(watermark) /\ ~BigIntLt(watermark, blockNumber)

\* shouldNotify, line 359: below the watermark
Stale(watermark, blockNumber) ==
    Truthy(watermark) /\ BigIntLt(blockNumber, watermark)

\* (a variant that looks the event key up above the watermark instead of at it)
AtWatermarkAbove(watermark, blockNumber) ==
    Truthy(watermark) /\ BigIntLt(watermark, blockNumber)

\* shouldNotify, line 361: at the watermark, the event key decides
AtWatermark(watermark, blockNumber) ==
    Truthy(watermark) /\ BigIntEq(blockNumber, watermark)

\* (a variant with the comparison the wrong way round)
AdvancesFlipped(watermark, blockNumber) ==
    ~Truthy(watermark) \/ BigIntLt(blockNumber, watermark)

\* shouldNotify, line 369: the watermark key is written
Advances(watermark, blockNumber) ==
    ~Truthy(watermark) \/ BigIntLt(watermark, blockNumber)

\* shouldNotify's result from what it read
Passes(watermark, exists, blockNumber) ==
    /\ ~Stale(watermark, blockNumber)
    /\ ~(AtWatermark(watermark, blockNumber) /\ exists)

\* (a variant whose key expires at once)
SetEventExpired(e, eventId) == [e EXCEPT ![eventId] = now]

\* redis.set(EVENT_PREFIX + eventId, '1', 'EX', EVENT_TTL)
SetEvent(e, eventId) == [e EXCEPT ![eventId] = now + EVENT_TTL]

\* (a variant that writes the position under every watermark key)
SetWatermarkAllScopes(w, wmKey, blockNumber) == [k \in DOMAIN w |-> blockNumber]

\* redis.set(wmKey, blockNumber)
SetWatermark(w, wmKey, blockNumber) == [w EXCEPT ![wmKey] = blockNumber]

\* (a variant that writes the event key first and checks afterwards)
shouldNotifyWriteFirst(eventId, blockNumber, chainId, contract) ==
    LET wmKey     == watermarkKey(chainId, contract)
        watermark == wm[wmKey]
        exists    == Exists(eventId)
        ret       == Passes(watermark, exists, blockNumber)
    IN  /\ Len(calls) < MaxCalls
        /\ ev' = SetEvent(ev, eventId)
        /\ wm' = IF ret /\ Advances(watermark, blockNumber)
                    THEN SetWatermark(wm, wmKey, blockNumber)
                    ELSE wm
        /\ calls' = Append(calls,
                       [eventId |-> eventId, blockNumber |-> blockNumber,
                        wmKey |-> wmKey, ret |-> ret,
                        wmBefore |-> watermark, wmAfter |-> wm'[wmKey],
                        existed |-> ev[eventId] > now,
                        live |-> ev'[eventId] > now,
                        others |-> \A k \in WmKeys \ {wmKey} : wm'[k] = wm[k],
                        same |-> (wm' = wm /\ ev' = ev)])
        /\ UNCHANGED <<now, nadv, upstream, pollVars, otherVars>>

\* One whole shouldNotify call, no other call in between
shouldNotify(eventId, blockNumber, chainId, contract) ==
    LET wmKey     == watermarkKey(chainId, contract)
        watermark == wm[wmKey]
        exists    == Exists(eventId)
        ret       == Passes(watermark, exists, blockNumber)
    IN  /\ Len(calls) < MaxCalls
        /\ ev' = IF ret THEN SetEvent(ev, eventId) ELSE ev
        /\ wm' = IF ret /\ Advances(watermark, blockNumber)
                    THEN SetWatermark(wm, wmKey, blockNumber)
                    ELSE wm
        /\ calls' = Append(calls,
                       [eventId |-> eventId, blockNumber |-> blockNumber,
                        wmKey |-> wmKey, ret |-> ret,
                        wmBefore |-> watermark, wmAfter |-> wm'[wmKey],
                        existed |-> ev[eventId] > now,
                        live |-> ev'[eventId] > now,
                        others |-> \A k \in WmKeys \ {wmKey} : wm'[k] = wm[k],
                        same |-> (wm' = wm /\ ev' = ev)])
        /\ UNCHANGED <<now, nadv, upstream, pollVars, otherVars>>

\* Time passes between two calls: a poll interval, or the retention window
Delays == {POLL_INTERVAL_MS \div 1000, EVENT_TTL}

Advance(d) ==
    /\ nadv < MaxAdvance
    /\ now' = now + d
    /\ nadv' = nadv + 1
    /\ UNCHANGED <<wm, ev, calls, upstream, pollVars, otherVars>>

----------------------------------------------------------------------------
(* poll(): one invocation, step by step between its awaits *)

\* the notifications handed to the sender
Notifs == 1..MaxNotifs

\* the sender's module state as loaded: lastSendTime = 0, sendQueue = [],
\* processing = false; nothing asked of it yet (a monitor hands its
\* notifications either to sendWebhook or to its own postToDiscord)
SndInit ==
    [url |-> TRUE, sendQueue |-> <<>>, processing |-> FALSE, lastSendTime |-> 0,
     pc |-> "idle", item |-> 0, wakeAt |-> 0, res |-> "none",
     requests |-> [n \in Notifs |-> 0],
     first |-> [n \in Notifs |-> "none"],
     second |-> [n \in Notifs |-> "none"],
     header |-> [n \in Notifs |-> Null],
     waited |-> [n \in Notifs |-> 0],
     lastReq |-> -1, minGap |-> -1,
     loops |-> 0, enq |-> <<>>, order |-> <<>>, behind |-> FALSE,
     resolves |-> [n \in Notifs |-> 0],
     result |-> [n \in Notifs |-> "none"],
     ptdRequests |-> [n \in Notifs |-> 0],
     ptdFirst |-> [n \in Notifs |-> "none"]]
\* the in-memory monitor as loaded: let lastCheckedBlock = '0'
MemInit ==
    [lastCheckedBlock |-> P0, pc |-> "idle", ops |-> <<>>, deployments |-> <<>>,
     i |-> 0, sent |-> <<>>, threw |-> FALSE, n |-> 0,
     l0 |-> P0, posts |-> [e \in AllEvents |-> 0]]

\* an invocation not yet made, or returned: no locals
IdleCycle ==
    [pc |-> "idle", lastBlock |-> Null, ops |-> <<>>, deployments |-> <<>>,
     i |-> 0, watermark |-> Null, sent |-> <<>>, wm0 |-> <<>>, threw |-> FALSE,
     ev0 |-> <<>>, rejected |-> {}]

\* the two for-loops of poll: the operations, then the deployments
Batch(c) == cyc[c].ops \o cyc[c].deployments
Item(c) == Batch(c)[cyc[c].i]

\* processUserOp / processDeployment: the scope handed to shouldNotify
ScopeOf(e) == watermarkKey(e.chainId, "EntryPointV07")

\* what a fetch may answer: up to the limit, ascending by blockNumber
Ascending(q) ==
    \A x, y \in 1..Len(q) :
        x < y => /\ q[x] # q[y]
                 /\ BigInt(q[x].blockNumber) <= BigInt(q[y].blockNumber)

FetchResults(U) ==
    {q \in UNION {[1..n -> U] : n \in 0..MaxBatch} : Ascending(q)}

Range(q) == {q[x] : x \in 1..Len(q)}

\* USER_OPS_QUERY / DEPLOYMENTS_QUERY answered by the indexer: of the
\* records with blockNumber_gt since, the first `limit` in ascending order
\* (records of one block in any order)
QueryAnswers(U, since) ==
    LET F == {e \in U : BigInt(e.blockNumber) > BigInt(since)}
    IN  {q \in FetchResults(F) :
           /\ Len(q) = Min({MaxBatch, Cardinality(F)})
           /\ \A e \in F \ Range(q) : \A x \in Range(q) :
                  BigInt(x.blockNumber) <= BigInt(e.blockNumber)}

\* the loop moves to the next item, or poll is through
NextItem(c) ==
    IF cyc[c].i < Len(Batch(c))
        THEN [cyc EXCEPT ![c].i = @ + 1, ![c].pc = "snGet", ![c].watermark = Null]
        ELSE [cyc EXCEPT ![c].pc = "done", ![c].watermark = Null]

\* line 461: const lastBlock = await getWatermark(369, 'EntryPointV07')
Poll_GetWatermark(c) ==
    /\ cyc[c].pc = "getWatermark"
    /\ cyc' = [cyc EXCEPT ![c].lastBlock = getWatermark(369, "EntryPointV07"),
                          ![c].wm0 = wm,
                          ![c].ev0 = ev,
                          ![c].pc = "fetch"]
    /\ UNCHANGED <<wm, ev, now, ledgerHist, mainPc, attempts, anyDelivered, otherVars>>

\* lines 463-466: both fetches answered
Poll_Fetch(c, ops, deployments) ==
    /\ cyc[c].pc = "fetch"
    /\ cyc' = [cyc EXCEPT ![c].ops = ops,
                          ![c].deployments = deployments,
                          ![c].i = IF Len(ops) + Len(deployments) > 0 THEN 1 ELSE 0,
                          ![c].pc = IF Len(ops) + Len(deployments) > 0
                                       THEN "snGet" ELSE "done"]
    /\ UNCHANGED <<wm, ev, now, ledgerHist, mainPc, attempts, anyDelivered, otherVars>>

\* (a variant that goes on with the answer of the fetch that did not reject)
Poll_FetchFailsPartial(c) ==
    /\ cyc[c].pc = "fetch"
    /\ \E e \in OpEvents :
           cyc' = [cyc EXCEPT ![c].rejected = {"fetchDeployments"},
                              ![c].ops = <<e>>, ![c].i = 1, ![c].pc = "snGet"]
    /\ UNCHANGED <<wm, ev, now, ledgerHist, mainPc, attempts, anyDelivered, otherVars>>

\* lines 463-466, 479-481: one fetch rejects or both do, Promise.all rejects
\* (the answer of the other fetch is never bound), poll logs it
Poll_FetchFails(c) ==
    /\ cyc[c].pc = "fetch"
    /\ \E r \in (SUBSET {"fetchUserOps", "fetchDeployments"}) \ {{}} :
           cyc' = [cyc EXCEPT ![c].threw = TRUE, ![c].rejected = r, ![c].pc = "done"]
    /\ UNCHANGED <<wm, ev, now, ledgerHist, mainPc, attempts, anyDelivered, otherVars>>

\* shouldNotify line 353: const watermark = await redis.get(wmKey), and the
\* comparisons of lines 355-361, which read nothing else
SN_Get(c) ==
    /\ cyc[c].pc = "snGet"
    /\ LET e         == Item(c)
           watermark == wm[ScopeOf(e)]
       IN  cyc' = IF Stale(watermark, e.blockNumber)
                     THEN NextItem(c)
                     ELSE [cyc EXCEPT ![c].watermark = watermark,
                                      ![c].pc = IF AtWatermark(watermark, e.blockNumber)
                                                   THEN "snExists" ELSE "snSetEv"]
    /\ UNCHANGED <<wm, ev, now, ledgerHist, mainPc, attempts, anyDelivered, otherVars>>

\* shouldNotify line 362-363: const exists = await redis.exists(...)
SN_Exists(c) ==
    /\ cyc[c].pc = "snExists"
    /\ cyc' = IF Exists(Item(c).id)
                 THEN NextItem(c)
                 ELSE [cyc EXCEPT ![c].pc = "snSetEv"]
    /\ UNCHANGED <<wm, ev, now, ledgerHist, mainPc, attempts, anyDelivered, otherVars>>

\* shouldNotify line 367: await redis.set(EVENT_PREFIX + eventId, ...)
SN_SetEvent(c) ==
    /\ cyc[c].pc = "snSetEv"
    /\ ev' = SetEvent(ev, Item(c).id)
    /\ cyc' = [cyc EXCEPT ![c].pc = IF Advances(cyc[c].watermark, Item(c).blockNumber)
                                       THEN "snSetWm" ELSE "notify"]
    /\ UNCHANGED <<wm, now, ledgerHist, mainPc, attempts, anyDelivered, otherVars>>

\* shouldNotify lines 369-371: await redis.set(wmKey, blockNumber)
SN_SetWatermark(c) ==
    /\ cyc[c].pc = "snSetWm"
    /\ wm' = SetWatermark(wm, ScopeOf(Item(c)), Item(c).blockNumber)
    /\ cyc' = [cyc EXCEPT ![c].pc = "notify"]
    /\ UNCHANGED <<ev, now, ledgerHist, mainPc, attempts, anyDelivered, otherVars>>

\* processUserOp lines 404-421, processDeployment lines 432-445: the event
\* is handed to the notifier, whose answer (delivered or not) is dropped
Notify(c, delivered) ==
    /\ cyc[c].pc = "notify"
    /\ attempts' = [attempts EXCEPT ![Item(c)] = @ + 1]
    /\ anyDelivered' = (anyDelivered \/ delivered)
    /\ cyc' = [NextItem(c) EXCEPT ![c].sent = Append(@, Item(c))]
    /\ UNCHANGED <<wm, ev, now, ledgerHist, mainPc, otherVars>>

\* (a variant of poll without the try/catch: the exception leaves poll, and
\* main with it, or the process as an unhandled rejection)
Poll_ReturnRethrows(c) ==
    /\ cyc[c].pc = "done"
    /\ cyc' = [cyc EXCEPT ![c] = [IdleCycle EXCEPT !.pc = "returned",
                                                   !.lastBlock = cyc[c].lastBlock,
                                                   !.threw = cyc[c].threw,
                                                   !.rejected = cyc[c].rejected]]
    /\ mainPc' = IF cyc[c].threw THEN "failed" ELSE mainPc
    /\ UNCHANGED <<wm, ev, now, ledgerHist, attempts, anyDelivered, otherVars>>

\* poll's promise settles; its locals are gone (what it fetched from and
\* whether it ran into the catch is kept, as history)
Poll_Return(c) ==
    /\ cyc[c].pc = "done"
    /\ cyc' = [cyc EXCEPT ![c] = [IdleCycle EXCEPT !.pc = "returned",
                                                   !.lastBlock = cyc[c].lastBlock,
                                                   !.threw = cyc[c].threw,
                                                   !.rejected = cyc[c].rejected]]
    /\ UNCHANGED <<wm, ev, now, ledgerHist, mainPc, attempts, anyDelivered, otherVars>>

\* a redis command of poll or of shouldNotify rejects (the connection is
\* down past maxRetriesPerRequest): nothing is written by that command, the
\* exception reaches the catch of poll, lines 479-481
RedisPcs == {"getWatermark", "snGet", "snExists", "snSetEv", "snSetWm"}

Redis_Rejects(c) ==
    /\ cyc[c].pc \in RedisPcs
    /\ cyc' = [cyc EXCEPT ![c].threw = TRUE, ![c].pc = "done",
                          ![c].wm0 = IF cyc[c].pc = "getWatermark" THEN wm ELSE @,
                          ![c].ev0 = IF cyc[c].pc = "getWatermark" THEN ev ELSE @]
    /\ UNCHANGED <<wm, ev, now, ledgerHist, mainPc, attempts, anyDelivered, otherVars>>

\* the fetches answered by a stand-in for the indexer: any ascending batches
FetchStub(c) ==
    /\ cyc[c].pc = "fetch"
    /\ \E ops \in FetchResults(OpEvents), deployments \in FetchResults(DeployEvents) :
           Poll_Fetch(c, ops, deployments)

\* the fetches answered by the indexer from what it has indexed
FetchUpstream(c) ==
    /\ cyc[c].pc = "fetch"
    /\ \E ops \in QueryAnswers(upstream \cap OpEvents, cyc[c].lastBlock),
          deployments \in QueryAnswers(upstream \cap DeployEvents, cyc[c].lastBlock) :
           Poll_Fetch(c, ops, deployments)

\* the indexer indexes the next block: its events become visible together
Blocks == {e.blockNumber : e \in AllEvents}

IndexBlock(b) ==
    /\ \A e \in upstream : BigInt(e.blockNumber) < BigInt(b)
    /\ upstream' = upstream \cup {e \in AllEvents : e.blockNumber = b}
    /\ UNCHANGED <<wm, ev, now, calls, nadv, pollVars, otherVars>>

PollStep(c) ==
    \/ Poll_GetWatermark(c)
    \/ Poll_FetchFails(c)
    \/ SN_Get(c)
    \/ SN_Exists(c)
    \/ SN_SetEvent(c)
    \/ SN_SetWatermark(c)
    \/ \E delivered \in BOOLEAN : Notify(c, delivered)
    \/ Poll_Return(c)

----------------------------------------------------------------------------
(* main(): the first poll is awaited, then the interval timer calls poll *)

Running(c) == cyc[c].pc \notin {"idle", "returned"}
NextCycle == Min({c \in 1..MaxCycles : cyc[c].pc = "idle"})
CanStart == \E c \in 1..MaxCycles : cyc[c].pc = "idle"

\* lines 491-494: await redis.ping(); await poll()
Main_InitialPoll ==
    /\ mainPc = "start"
    /\ mainPc' = "polling"
    /\ cyc' = [cyc EXCEPT ![1].pc = "getWatermark"]
    /\ UNCHANGED <<wm, ev, now, ledgerHist, attempts, anyDelivered, otherVars>>

\* line 491, 504: redis.ping() rejects, main() rejects, the rejection is
\* logged; nothing has called poll and nothing will
Main_PingFails ==
    /\ mainPc = "start"
    /\ mainPc' = "failed"
    /\ UNCHANGED <<wm, ev, now, ledgerHist, cyc, attempts, anyDelivered, otherVars>>

\* line 495: setInterval(poll, POLL_INTERVAL_MS), once the first poll is through
Main_SetInterval ==
    /\ mainPc = "polling"
    /\ cyc[1].pc = "returned"
    /\ mainPc' = "interval"
    /\ UNCHANGED <<wm, ev, now, ledgerHist, cyc, attempts, anyDelivered, otherVars>>

\* the timer calls poll() every POLL_INTERVAL_MS, whatever earlier calls do
TimerFire ==
    /\ mainPc = "interval"
    /\ CanStart
    /\ now' = now + POLL_INTERVAL_MS \div 1000
    /\ cyc' = [cyc EXCEPT ![NextCycle].pc = "getWatermark"]
    /\ UNCHANGED <<wm, ev, ledgerHist, mainPc, attempts, anyDelivered, otherVars>>

\* the timer fires with no poll in progress
TimerFireIdle ==
    /\ \A c \in 1..MaxCycles : ~Running(c)
    /\ TimerFire

InitPoll ==
    /\ wm \in [WmKeys -> {Null, P0, P10}]
    /\ wm[watermarkKey(1, "EntryPointV07")] = Null
    /\ ev = [e \in EventIds |-> 0]
    /\ now = 0
    /\ calls = <<>>
    /\ nadv = 0
    /\ mainPc = "start"
    /\ cyc = [c \in 1..MaxCycles |-> IdleCycle]
    /\ attempts = [e \in AllEvents |-> 0]
    /\ anyDelivered = FALSE
    /\ upstream = {}
    /\ snd = SndInit
    /\ mem = MemInit

\* poll cycles one after the other, with a store that may fail
NextSeq ==
    \/ Main_InitialPoll
    \/ Main_PingFails
    \/ Main_SetInterval
    \/ TimerFireIdle
    \/ \E c \in 1..MaxCycles : FetchStub(c)
    \/ \E c \in 1..MaxCycles : PollStep(c)
    \/ \E c \in 1..MaxCycles : Redis_Rejects(c)

SpecSeq == InitPoll /\ [][NextSeq]_vars

\* the program, with a store that answers: the timer does not wait for a
\* poll in progress
Next ==
    \/ Main_InitialPoll
    \/ Main_PingFails
    \/ Main_SetInterval
    \/ TimerFire
    \/ \E b \in Blocks : IndexBlock(b)
    \/ \E c \in 1..MaxCycles : FetchUpstream(c)
    \/ \E c \in 1..MaxCycles : PollStep(c)

Spec == InitPoll /\ [][Next]_vars

----------------------------------------------------------------------------
(* The ledger under calls made one after another, from any stored state *)

LedgerIds == {"a", "b"}
LedgerPositions == {P9, P10, P12}

InitLedger ==
    /\ wm \in [WmKeys -> {Null, P10}]
    /\ wm[watermarkKey(1, "EntryPointV07")] = Null
    /\ ev \in [EventIds -> {0, EVENT_TTL}]
    /\ \A e \in EventIds \ {"a"} : ev[e] = 0
    /\ now = 0
    /\ calls = <<>>
    /\ nadv = 0
    /\ mainPc = "start"
    /\ cyc = [c \in 1..MaxCycles |-> IdleCycle]
    /\ attempts = [e \in AllEvents |-> 0]
    /\ anyDelivered = FALSE
    /\ upstream = {}
    /\ snd = SndInit
    /\ mem = MemInit

NextLedger ==
    \/ \E e \in LedgerIds, p \in LedgerPositions, ch \in ChainIds, co \in Contracts :
           shouldNotify(e, p, ch, co)
    \/ \E d \in Delays : Advance(d)

SpecLedger == InitLedger /\ [][NextLedger]_vars

----------------------------------------------------------------------------
(* The Discord sender: sendWebhook, processSendQueue, doSendWebhook        *)
(* (src/unnamed/part_000), and the postToDiscord of the monitor that posts *)
(* by itself (src/unnamed/part_002)                                        *)

MIN_INTERVAL_MS == 2000

\* Date.now(), in milliseconds
DateNow == now * 1000

\* what the sink does with a POST: 2xx, 429, another status, or the
\* transport fails and fetch rejects
Outcomes == {"ok", "429", "error", "throw"}

\* the retry-after header of a 429 answer: seconds in decimal, or no header
RetryAfterHeaders == {Null, <<0>>, <<2>>}

\* how long the answer takes, in seconds
Latencies == {0, 1}

\* (a variant that backs off for a fixed time)
RetryAfterFixed(h) == 5 * 1000

\* Number(res.headers.get("retry-after") || "5") * 1000
RetryAfter(h) == (IF Truthy(h) THEN BigInt(h) ELSE 5) * 1000

\* (a variant without the try/catch: a rejected fetch reaches the caller)
Uncaught(o) == IF o = "ok" THEN "true" ELSE IF o = "throw" THEN "threw" ELSE "false"

\* doSendWebhook's return value after the answer o that settles it: res.ok /
\* retry.ok, false from the catch
Settled(o) == IF o = "ok" THEN "true" ELSE "false"

\* (a variant that asks once more on every answer that is not OK)
NeedsRetryAny(o) == o \in {"429", "error"}

\* line 255: res.status === 429
NeedsRetry(o) == o = "429"

\* doSendWebhook is entered for s.item: without a webhook URL it returns
\* false at once, otherwise the POST goes out
EnterSend(s) ==
    IF s.url THEN [s EXCEPT !.pc = "fetch", !.order = Append(@, s.item)]
             ELSE [s EXCEPT !.pc = "resolve", !.res = "false",
                            !.order = Append(@, s.item)]

\* a POST leaves at time t (ms): the time of the last POST, and the shortest
\* time seen between two POSTs in a row (-1: none yet)
Posted(s, t) ==
    [s EXCEPT !.lastReq = t,
              !.minGap = IF s.lastReq < 0 THEN s.minGap
                         ELSE IF s.minGap < 0 THEN t - s.lastReq
                         ELSE Min({s.minGap, t - s.lastReq})]

\* the while loop of processSendQueue at its head, at time t (ms)
LoopHead(s, t) ==
    IF s.sendQueue = <<>>
        THEN [s EXCEPT !.processing = FALSE, !.pc = "idle", !.item = 0,
                       !.loops = @ - 1]
        ELSE LET s1   == [s EXCEPT !.item = Head(s.sendQueue),
                                   !.sendQueue = Tail(s.sendQueue)]
                 wait == Max({0, MIN_INTERVAL_MS - (t - s.lastSendTime)})
             IN  IF wait > 0
                     THEN [s1 EXCEPT !.pc = "wait", !.wakeAt = t + wait]
                     ELSE EnterSend(s1)

\* (a variant whose processSendQueue does not look at the processing flag)
sendWebhookNoFlag(n) ==
    /\ snd.result[n] = "none"
    /\ \A m \in Notifs : snd.ptdRequests[m] = 0
    /\ LET s1 == [snd EXCEPT !.sendQueue = Append(@, n), !.result[n] = "queued",
                             !.enq = Append(@, n),
                             !.behind = (@ \/ snd.processing)]
       IN  snd' = LoopHead([s1 EXCEPT !.processing = TRUE, !.loops = @ + 1], DateNow)
    /\ UNCHANGED <<wm, ev, now, ledgerHist, pollVars, mem>>

\* sendWebhook: the item is queued and processSendQueue is called, which
\* returns at once when the loop is already running (enq: the items in the
\* order queued; behind: an item was queued while the loop was running;
\* loops: the invocations of processSendQueue inside the while loop)
sendWebhook(n) ==
    /\ snd.result[n] = "none"
    /\ \A m \in Notifs : snd.ptdRequests[m] = 0
    /\ LET s1 == [snd EXCEPT !.sendQueue = Append(@, n), !.result[n] = "queued",
                             !.enq = Append(@, n),
                             !.behind = (@ \/ snd.processing)]
       IN  snd' = IF s1.processing
                     THEN s1
                     ELSE LoopHead([s1 EXCEPT !.processing = TRUE, !.loops = @ + 1],
                                   DateNow)
    /\ UNCHANGED <<wm, ev, now, ledgerHist, pollVars, mem>>

\* processSendQueue: the setTimeout(r, wait) is over
PSQ_Wake ==
    /\ snd.pc = "wait"
    /\ now' = Max({now, snd.wakeAt \div 1000})
    /\ snd' = EnterSend(snd)
    /\ UNCHANGED <<wm, ev, ledgerHist, pollVars, mem>>

\* doSendWebhook lines 246-255, 272-280: the first POST is answered
DSW_Fetch(o, h, lat) ==
    /\ snd.pc = "fetch"
    /\ now' = now + lat
    /\ LET n  == snd.item
           s1 == [Posted(snd, DateNow) EXCEPT !.requests[n] = @ + 1, !.first[n] = o]
       IN  snd' = IF NeedsRetry(o)
                     THEN [s1 EXCEPT !.pc = "backoff", !.header[n] = h,
                                     !.wakeAt = now' * 1000 + RetryAfter(h)]
                     ELSE [s1 EXCEPT !.pc = "resolve", !.res = Settled(o)]
    /\ UNCHANGED <<wm, ev, ledgerHist, pollVars, mem>>

\* doSendWebhook lines 259-270: the back-off is over (waited: the time
\* since the 429 answer, in ms), the second POST goes out and is answered
DSW_Retry(o) ==
    /\ snd.pc = "backoff"
    /\ now' = Max({now, snd.wakeAt \div 1000})
    /\ LET n == snd.item
       IN  snd' = [Posted(snd, now' * 1000) EXCEPT !.requests[n] = @ + 1, !.second[n] = o,
                              !.waited[n] = now' * 1000 - DateNow,
                              !.pc = "resolve", !.res = Settled(o)]
    /\ UNCHANGED <<wm, ev, ledgerHist, pollVars, mem>>

\* processSendQueue lines 235-236, and the loop goes round
PSQ_Resolve ==
    /\ snd.pc = "resolve"
    /\ snd' = LoopHead([snd EXCEPT !.lastSendTime = DateNow,
                                   !.result[snd.item] = snd.res,
                                   !.resolves[snd.item] = @ + 1,
                                   !.res = "none"], DateNow)
    /\ UNCHANGED <<wm, ev, now, ledgerHist, pollVars, mem>>

\* postToDiscord of src/unnamed/part_002: one POST; a status that is neither
\* OK nor 429 is logged, a rejected fetch is logged, nothing is returned
postToDiscord(n, o) ==
    /\ snd.ptdRequests[n] = 0
    /\ \A m \in Notifs : snd.result[m] = "none"
    /\ snd.url
    /\ snd' = [snd EXCEPT !.ptdRequests[n] = @ + 1, !.ptdFirst[n] = o]
    /\ UNCHANGED <<wm, ev, now, ledgerHist, pollVars, mem>>

InitNotifier ==
    /\ wm = [k \in WmKeys |-> Null]
    /\ ev = [e \in EventIds |-> 0]
    /\ now = 100
    /\ calls = <<>>
    /\ nadv = 0
    /\ mainPc = "start"
    /\ cyc = [c \in 1..MaxCycles |-> IdleCycle]
    /\ attempts = [e \in AllEvents |-> 0]
    /\ anyDelivered = FALSE
    /\ upstream = {}
    /\ snd \in {[SndInit EXCEPT !.url = u] : u \in BOOLEAN}
    /\ mem = MemInit

NextNotifier ==
    \/ \E n \in Notifs : sendWebhook(n)
    \/ PSQ_Wake
    \/ \E o \in Outcomes, h \in RetryAfterHeaders, lat \in Latencies : DSW_Fetch(o, h, lat)
    \/ \E o \in Outcomes : DSW_Retry(o)
    \/ PSQ_Resolve
    \/ \E n \in Notifs, o \in Outcomes : postToDiscord(n, o)
    \/ (snd.pc = "idle" /\ Advance(1))

SpecNotifier == InitNotifier /\ [][NextNotifier]_vars

\* timers fire and every fetch settles, with an answer or a rejection
FairNotifier ==
    /\ WF_vars(PSQ_Wake)
    /\ WF_vars(\E o \in Outcomes, h \in RetryAfterHeaders, lat \in Latencies :
                  DSW_Fetch(o, h, lat))
    /\ WF_vars(\E o \in Outcomes : DSW_Retry(o))
    /\ WF_vars(PSQ_Resolve)

SpecNotifierLive == InitNotifier /\ [][NextNotifier]_vars /\ FairNotifier

----------------------------------------------------------------------------
(* The in-memory monitor (src/monitor.ts, lines 1-191): lastCheckedBlock,  *)
(* its own postToDiscord; its poll cycles taken one after the other        *)

\* ops.reduce((max, op) => Number(op.blockNumber) > Number(max) ? op.blockNumber : max, '0')
RECURSIVE MaxBlock(_)
MaxBlock(q) ==
    IF q = <<>> THEN P0
    ELSE LET max == MaxBlock(SubSeq(q, 1, Len(q) - 1))
             b   == q[Len(q)].blockNumber
         IN  IF BigInt(b) > BigInt(max) THEN b ELSE max

\* (a variant that stores the batch's highest block without comparing)
BumpAlways(l, q) == IF q # <<>> THEN MaxBlock(q) ELSE l

\* if (Number(maxBlock) > Number(lastCheckedBlock)) lastCheckedBlock = maxBlock
Bump(l, q) ==
    IF q # <<>> /\ BigInt(MaxBlock(q)) > BigInt(l) THEN MaxBlock(q) ELSE l

MemBatch == mem.ops \o mem.deployments

\* (a variant whose postToDiscord catches what fetch throws)
PostThrowsNever(o) == FALSE

\* postToDiscord, lines 95-106: the fetch is awaited bare; its status is
\* not looked at, its rejection reaches the caller
PostThrows(o) == o = "throw"

\* main / setInterval call poll(): both queries go out with lastCheckedBlock
Mem_Poll ==
    /\ mem.pc = "idle"
    /\ mem.n < MaxCycles
    /\ mem' = [mem EXCEPT !.pc = "fetch", !.n = @ + 1, !.threw = FALSE,
                          !.l0 = mem.lastCheckedBlock,
                          !.ops = <<>>, !.deployments = <<>>, !.i = 0, !.sent = <<>>]
    /\ UNCHANGED <<wm, ev, now, calls, nadv, upstream, pollVars, snd>>

\* lines 154-157: both fetches answered
Mem_Fetch(ops, deployments) ==
    /\ mem.pc = "fetch"
    /\ mem' = [mem EXCEPT !.ops = ops, !.deployments = deployments,
                          !.i = IF Len(ops) + Len(deployments) > 0 THEN 1 ELSE 0,
                          !.pc = IF Len(ops) + Len(deployments) > 0
                                    THEN "post" ELSE "done"]
    /\ UNCHANGED <<wm, ev, now, calls, nadv, upstream, pollVars, snd>>

\* what the indexer held at this or an earlier moment
Earlier(U) ==
    {{}} \cup {{e \in U : BigInt(e.blockNumber) <= BigInt(b)} : b \in Blocks}

\* the queries answered by the indexer from what it has indexed: ascending
\* batches of records above lastCheckedBlock; the two requests of
\* Promise.all are answered one after the other, the indexer going on in
\* between
Mem_FetchUpstream ==
    /\ mem.pc = "fetch"
    /\ \E U1, U2 \in Earlier(upstream) :
          /\ U1 = upstream \/ U2 = upstream
          /\ \E ops \in QueryAnswers(U1 \cap OpEvents, mem.lastCheckedBlock),
                deployments \in QueryAnswers(U2 \cap DeployEvents,
                                             mem.lastCheckedBlock) :
                 Mem_Fetch(ops, deployments)

\* lines 154-157, 174-176: a fetch rejects
Mem_FetchFails ==
    /\ mem.pc = "fetch"
    /\ mem' = [mem EXCEPT !.threw = TRUE, !.pc = "done"]
    /\ UNCHANGED <<wm, ev, now, calls, nadv, upstream, pollVars, snd>>

\* processUserOps / processDeployments: the next embed is posted, with
\* outcome o; after the last operation and after the last deployment
\* lastCheckedBlock moves up (lines 159-169); l0: lastCheckedBlock when the
\* cycle began; posts: the POSTs per event that reached the sink
Mem_Post(o) ==
    /\ mem.pc = "post"
    /\ LET e     == MemBatch[mem.i]
           nOps  == Len(mem.ops)
           total == Len(MemBatch)
           l1    == IF mem.i = nOps THEN Bump(mem.lastCheckedBlock, mem.ops)
                                    ELSE mem.lastCheckedBlock
           l2    == IF mem.i = total /\ mem.deployments # <<>>
                        THEN Bump(l1, mem.deployments) ELSE l1
       IN  mem' = IF PostThrows(o)
                     THEN [mem EXCEPT !.sent = Append(@, e), !.threw = TRUE,
                                      !.pc = "done"]
                     ELSE [mem EXCEPT !.sent = Append(@, e),
                                      !.posts[e] = @ + 1,
                                      !.lastCheckedBlock = l2,
                                      !.i = IF mem.i < total THEN @ + 1 ELSE @,
                                      !.pc = IF mem.i < total THEN "post" ELSE "done"]
    /\ UNCHANGED <<wm, ev, now, calls, nadv, upstream, pollVars, snd>>

\* poll's promise settles
Mem_Return ==
    /\ mem.pc = "done"
    /\ mem' = [mem EXCEPT !.pc = "idle"]
    /\ UNCHANGED <<wm, ev, now, calls, nadv, upstream, pollVars, snd>>

InitMem ==
    /\ wm = [k \in WmKeys |-> Null]
    /\ ev = [e \in EventIds |-> 0]
    /\ now = 0
    /\ calls = <<>>
    /\ nadv = 0
    /\ mainPc = "start"
    /\ cyc = [c \in 1..MaxCycles |-> IdleCycle]
    /\ attempts = [e \in AllEvents |-> 0]
    /\ anyDelivered = FALSE
    /\ upstream = {}
    /\ snd = SndInit
    /\ mem = MemInit

NextMem ==
    \/ Mem_Poll
    \/ Mem_FetchUpstream
    \/ \E b \in Blocks : IndexBlock(b)
    \/ Mem_FetchFails
    \/ \E o \in Outcomes : Mem_Post(o)
    \/ Mem_Return

SpecMem == InitMem /\ [][NextMem]_vars

----------------------------------------------------------------------------
(* The timer-driven loop with a store that may fail, every await settling  *)
(* and the timer firing when due; the indexer has block 10 indexed         *)

InitLive ==
    /\ wm = [k \in WmKeys |-> Null]
    /\ ev = [e \in EventIds |-> 0]
    /\ now = 0
    /\ calls = <<>>
    /\ nadv = 0
    /\ mainPc = "start"
    /\ cyc = [c \in 1..MaxCycles |-> IdleCycle]
    /\ attempts = [e \in AllEvents |-> 0]
    /\ anyDelivered = FALSE
    /\ upstream = {e \in AllEvents : e.blockNumber = P10}
    /\ snd = SndInit
    /\ mem = MemInit

NextLive ==
    \/ Main_InitialPoll
    \/ Main_PingFails
    \/ Main_SetInterval
    \/ TimerFire
    \/ \E c \in 1..MaxCycles : FetchUpstream(c)
    \/ \E c \in 1..MaxCycles : PollStep(c)
    \/ \E c \in 1..MaxCycles : Redis_Rejects(c)

FairLive ==
    /\ WF_vars(Main_InitialPoll)
    /\ WF_vars(Main_SetInterval)
    /\ WF_vars(TimerFire)
    /\ \A c \in 1..MaxCycles :
          WF_vars(PollStep(c) \/ FetchUpstream(c) \/ Redis_Rejects(c))

SpecLive == InitLive /\ [][NextLive]_vars /\ FairLive

\* the indexer holds the records of more than one chain: the queries do not
\* select on chainId (lines 264-312), each item carries its own
OtherChainOps == {UserOpEvent("d", P12, 1)}

FetchAnyChain(c) ==
    /\ cyc[c].pc = "fetch"
    /\ \E ops \in FetchResults(OpEvents \cup OtherChainOps),
          deployments \in FetchResults(DeployEvents) :
           Poll_Fetch(c, ops, deployments)

InitScopes ==
    /\ wm \in [WmKeys -> {Null, P0, P10}]
    /\ wm[watermarkKey(1, "EntryPointV07")] = Null
    /\ ev = [e \in EventIds |-> 0]
    /\ now = 0
    /\ calls = <<>>
    /\ nadv = 0
    /\ mainPc = "start"
    /\ cyc = [c \in 1..MaxCycles |-> IdleCycle]
    /\ attempts = [e \in AllEvents \cup OtherChainOps |-> 0]
    /\ anyDelivered = FALSE
    /\ upstream = {}
    /\ snd = SndInit
    /\ mem = MemInit

\* poll cycles one after the other, the store answering
NextScopes ==
    \/ Main_InitialPoll
    \/ Main_SetInterval
    \/ TimerFireIdle
    \/ \E c \in 1..MaxCycles : FetchAnyChain(c)
    \/ \E c \in 1..MaxCycles : PollStep(c)

SpecScopes == InitScopes /\ [][NextScopes]_vars

\* the indexer holds more operations of one block than a query returns
\* (limit: 100, lines 269 and 294), and no deployment
BacklogOps == {UserOpEvent(id, P10, 369) : id \in EventIds}

\* both queries answered by the indexer from what it holds
FetchBacklog(c) ==
    /\ cyc[c].pc = "fetch"
    /\ \E ops \in QueryAnswers({e \in upstream : e.kind = "op"}, cyc[c].lastBlock),
          deployments \in QueryAnswers({e \in upstream : e.kind = "deploy"},
                                       cyc[c].lastBlock) :
           Poll_Fetch(c, ops, deployments)

InitBacklog ==
    /\ wm = [k \in WmKeys |-> Null]
    /\ ev = [e \in EventIds |-> 0]
    /\ now = 0
    /\ calls = <<>>
    /\ nadv = 0
    /\ mainPc = "start"
    /\ cyc = [c \in 1..MaxCycles |-> IdleCycle]
    /\ attempts = [e \in AllEvents \cup BacklogOps |-> 0]
    /\ anyDelivered = FALSE
    /\ upstream = BacklogOps
    /\ snd = SndInit
    /\ mem = MemInit

\* the steps of one poll with the indexer and the store answering
BacklogStep(c) ==
    \/ Poll_GetWatermark(c)
    \/ FetchBacklog(c)
    \/ SN_Get(c)
    \/ SN_Exists(c)
    \/ SN_SetEvent(c)
    \/ SN_SetWatermark(c)
    \/ \E delivered \in BOOLEAN : Notify(c, delivered)
    \/ Poll_Return(c)

\* poll cycles one after the other
NextBacklog ==
    \/ Main_InitialPoll
    \/ Main_SetInterval
    \/ TimerFireIdle
    \/ \E c \in 1..MaxCycles : BacklogStep(c)

\* the timer fires and every await of poll settles
FairBacklog ==
    /\ WF_vars(Main_InitialPoll)
    /\ WF_vars(Main_SetInterval)
    /\ WF_vars(TimerFireIdle)
    /\ \A c \in 1..MaxCycles : WF_vars(BacklogStep(c))

SpecBacklog == InitBacklog /\ [][NextBacklog]_vars /\ FairBacklog

\* the ledger with the watermark unset or stored as '0', calls at position 0
\* among them
InitLedgerZero ==
    /\ wm \in [WmKeys -> {Null, P0}]
    /\ ev \in [EventIds -> {0, EVENT_TTL}]
    /\ \A e \in EventIds \ {"a"} : ev[e] = 0
    /\ now = 0
    /\ calls = <<>>
    /\ nadv = 0
    /\ mainPc = "start"
    /\ cyc = [c \in 1..MaxCycles |-> IdleCycle]
    /\ attempts = [e \in AllEvents |-> 0]
    /\ anyDelivered = FALSE
    /\ upstream = {}
    /\ snd = SndInit
    /\ mem = MemInit

NextLedgerZero ==
    \E e \in LedgerIds, p \in {P0, P10}, ch \in ChainIds, co \in Contracts :
        shouldNotify(e, p, ch, co)

SpecLedgerZero == InitLedgerZero /\ [][NextLedgerZero]_vars

----------------------------------------------------------------------------
(* Properties of the ledger under sequential calls *)

\* the position a stored watermark stands for (getWatermark's default for unset)
WmValue(w) == IF w = Null THEN 0 ELSE BigInt(w)

CallsOn(k) == {i \in 1..Len(calls) : calls[i].wmKey = k}

SameArgs(x, y) ==
    /\ x.eventId = y.eventId
    /\ x.blockNumber = y.blockNumber
    /\ x.wmKey = y.wmKey

\* C1: under shouldNotify calls made one after another, no step lowers the
\* stored watermark of any scope, and a watermark once set stays set.
C1_WatermarkNeverDecreases ==
    [][\A k \in WmKeys :
          /\ WmValue(wm'[k]) >= WmValue(wm[k])
          /\ (wm[k] # Null => wm'[k] # Null)]_vars

\* a call below the watermark was made after a call had advanced it
C1_Witness ==
    \E i, j \in 1..Len(calls) :
        /\ i < j
        /\ calls[i].wmKey = calls[j].wmKey
        /\ calls[i].wmAfter # calls[i].wmBefore
        /\ BigInt(calls[j].blockNumber) < WmValue(calls[j].wmBefore)
        /\ calls[j].wmAfter = calls[j].wmBefore

\* C2: starting from an unset watermark, after calls with positions p1..pn
\* in any order the stored watermark is max(p1..pn); a call whose position
\* is not strictly greater than the stored value leaves the watermark alone.
C2_WatermarkIsMax ==
    /\ \A k \in WmKeys :
          (CallsOn(k) # {} /\ calls[Min(CallsOn(k))].wmBefore = Null)
              => /\ wm[k] # Null
                 /\ BigInt(wm[k]) = Max({BigInt(calls[i].blockNumber) : i \in CallsOn(k)})
    /\ \A i \in 1..Len(calls) :
          (calls[i].wmBefore # Null
             /\ BigInt(calls[i].blockNumber) <= BigInt(calls[i].wmBefore))
              => calls[i].wmAfter = calls[i].wmBefore

\* three calls on one scope from unset, the highest position first
C2_Witness ==
    \E k \in WmKeys :
        /\ Len(calls) = 3
        /\ CallsOn(k) = {1, 2, 3}
        /\ calls[1].wmBefore = Null
        /\ calls[1].blockNumber = P12
        /\ calls[2].blockNumber = P9
        /\ calls[3].blockNumber = P10
        /\ calls[1].eventId # calls[2].eventId
        /\ wm[k] = P12

\* C3: of two successive calls with the same (eventId, position, scope),
\* the record not having expired in between, the second returns false.
C3_RepeatReturnsFalse ==
    \A i \in 1..(Len(calls) - 1) :
        (SameArgs(calls[i], calls[i + 1])
           /\ (calls[i].live => calls[i + 1].existed))
            => ~calls[i + 1].ret

\* a call that returned true, repeated
C3_Witness ==
    \E i \in 1..(Len(calls) - 1) :
        /\ SameArgs(calls[i], calls[i + 1])
        /\ calls[i].ret
        /\ calls[i + 1].existed
        /\ ~calls[i + 1].ret

\* C4: a call at the watermark returns true exactly when the event id has
\* no unexpired record, and leaves the watermark as it was.
C4_BoundaryTieBreak ==
    \A i \in 1..Len(calls) :
        (calls[i].wmBefore # Null
           /\ BigInt(calls[i].blockNumber) = BigInt(calls[i].wmBefore))
            => /\ calls[i].ret = ~calls[i].existed
               /\ calls[i].wmAfter = calls[i].wmBefore

\* at the watermark: a new id passes, the same id again does not, another
\* new id passes
C4_Witness ==
    /\ Len(calls) = 3
    /\ \A i \in 1..3 :
          /\ calls[i].wmKey = calls[1].wmKey
          /\ calls[i].wmBefore = P10
          /\ calls[i].blockNumber = P10
    /\ calls[2].eventId = calls[1].eventId
    /\ calls[3].eventId # calls[1].eventId
    /\ calls[1].ret /\ ~calls[2].ret /\ calls[3].ret
    /\ wm[calls[1].wmKey] = P10

\* C5: a call strictly below the watermark returns false, record or not.
C5_StaleRejected ==
    \A i \in 1..Len(calls) :
        BigInt(calls[i].blockNumber) < WmValue(calls[i].wmBefore)
            => ~calls[i].ret

\* a never-seen id below the watermark is rejected
C5_Witness ==
    \E i \in 1..Len(calls) :
        /\ BigInt(calls[i].blockNumber) < WmValue(calls[i].wmBefore)
        /\ ~calls[i].existed
        /\ ev[calls[i].eventId] = 0
        /\ ~calls[i].ret

----------------------------------------------------------------------------
(* Properties of the poll cycle *)

Cycles == 1..MaxCycles
PollScope == watermarkKey(369, "EntryPointV07")

\* poll ran through its loops (no fetch failed)
Completed(c) == cyc[c].pc = "done" /\ ~cyc[c].threw

Ids(q) == [x \in 1..Len(q) |-> q[x].id]
Positions(S) == {BigInt(e.blockNumber) : e \in S}
InScope(c, k) == {e \in Range(Batch(c)) : ScopeOf(e) = k}

\* how often e had been attempted when cycle c began
AttemptedBefore(c, e) ==
    attempts[e] - Cardinality({x \in 1..Len(cyc[c].sent) : cyc[c].sent[x] = e})

\* C6: from an unset or zero watermark and no dedup record of theirs, a
\* cycle that fetched a@10, b@10, c@12 and met no store failure ends with
\* watermark 12 after attempts for a, b, c in this order; a
\* cycle at watermark 12 that is handed the same three events again, each
\* attempted before, makes no attempt and leaves the watermark at 12.
C6_EndToEnd ==
    \A c \in Cycles :
        (Completed(c) /\ Ids(Batch(c)) = <<"a", "b", "c">>)
            => /\ ((/\ cyc[c].lastBlock = P0
                     /\ \A e \in Range(Batch(c)) : cyc[c].ev0[e.id] = 0)
                     => /\ wm[PollScope] = P12
                        /\ cyc[c].sent = Batch(c))
               /\ ((/\ cyc[c].lastBlock = P12
                     /\ \A e \in Range(Batch(c)) : AttemptedBefore(c, e) >= 1)
                     => /\ wm[PollScope] = P12
                        /\ cyc[c].sent = <<>>)

\* the second cycle of the scenario is through: a, b and c were each
\* attempted once, in an earlier cycle, and not again
C6_Witness ==
    \E c \in Cycles :
        /\ c > 1
        /\ Completed(c)
        /\ Ids(Batch(c)) = <<"a", "b", "c">>
        /\ cyc[c].lastBlock = P12
        /\ cyc[c].wm0[PollScope] = P12
        /\ \A e \in Range(Batch(c)) : attempts[e] = 1
        /\ \A e \in AllEvents \ Range(Batch(c)) : attempts[e] = 0
        /\ cyc[c].sent = <<>>
        /\ wm[PollScope] = P12

\* the first cycle of the scenario is through
C6_FirstCycleReached ==
    \E c \in Cycles :
        /\ Completed(c)
        /\ Ids(Batch(c)) = <<"a", "b", "c">>
        /\ cyc[c].lastBlock = P0
        /\ cyc[c].wm0[PollScope] = Null
        /\ cyc[c].sent = Batch(c)

C8_NoDuplicateAttempt ==
    \A id \in EventIds :
        \A e1, e2 \in {e \in AllEvents : e.id = id} :
            /\ attempts[e1] <= 1
            /\ (e1 # e2 => attempts[e1] + attempts[e2] <= 1)

\* C9: a cycle that ran through attempted every fetched event whose
\* position is above the watermark it read at its start.
C9_NoMissedEvent ==
    \A c \in Cycles :
        Completed(c) =>
            \A e \in Range(Batch(c)) :
                BigInt(e.blockNumber) > BigInt(cyc[c].lastBlock)
                    => e \in Range(cyc[c].sent)

\* poll(c) has been called and has not run through
InProgress(c) == cyc[c].pc \notin {"idle", "done", "returned"}

\* C10: poll cycles never overlap: at most one poll() body is in progress
\* at any time, also when the timer fires during a cycle.
C10_NoOverlap ==
    Cardinality({c \in Cycles : InProgress(c)}) <= 1

----------------------------------------------------------------------------
(* Properties of shouldNotify under interleaving *)

\* shouldNotify of cycle c is past its checks: it will return true
Passed(c) == cyc[c].pc \in {"snSetEv", "snSetWm", "notify"}

\* C11: the check-and-set is atomic per event id: of two shouldNotify
\* invocations in flight for the same (eventId, position, scope), at most
\* one gets past the checks and returns true.
C11_AtMostOneTrue ==
    \A c1, c2 \in Cycles :
        (c1 # c2 /\ Passed(c1) /\ Passed(c2)) => Item(c1) # Item(c2)

\* C12: under the timer-driven loop, with shouldNotify invocations of
\* overlapping cycles interleaving at their awaits, no redis.set lowers the
\* stored watermark of the scope.
C12_MonotoneUnderInterleaving ==
    [][\A k \in WmKeys :
          wm'[k] # wm[k] => BigIntLt(getWatermark(k[1], k[2]), wm'[k])]_vars

----------------------------------------------------------------------------
(* Properties of the poll cycle under failures *)

\* poll(c) ended in its catch because a fetch rejected
FetchFailed(c) == cyc[c].rejected # {}

\* C13: a cycle in which a fetch failed (one or both) ends without a
\* delivery attempt and with every watermark and every dedup record as they
\* were when it began, and the cycle after it fetches from the same position.
C13_FetchFailureLeavesState ==
    /\ \A c \in Cycles :
          (cyc[c].pc = "done" /\ FetchFailed(c))
              => /\ cyc[c].sent = <<>>
                 /\ wm = cyc[c].wm0
                 /\ ev = cyc[c].ev0
    /\ \A c \in 1..(MaxCycles - 1) :
          (cyc[c].pc = "returned" /\ FetchFailed(c) /\ cyc[c + 1].pc = "fetch")
              => cyc[c + 1].lastBlock = cyc[c].lastBlock

\* with a watermark and a dedup record stored by an earlier cycle, a cycle
\* lost its fetch and the next one is about to fetch, from the same position
C13_Witness ==
    \E c \in 2..(MaxCycles - 1) :
        /\ cyc[c].pc = "returned"
        /\ FetchFailed(c)
        /\ cyc[c + 1].pc = "fetch"
        /\ cyc[c + 1].lastBlock = P12
        /\ wm[PollScope] = P12
        /\ attempts[UserOpEvent("c", P12, 369)] = 1
        /\ Exists("c")

\* C14: a cycle abandoned on an exception, wherever it was raised, leaves
\* every watermark and every dedup record as they were when it began.
C14_ExceptionLeavesState ==
    \A c \in Cycles :
        (cyc[c].pc = "done" /\ cyc[c].threw)
            => /\ wm = cyc[c].wm0
               /\ ev = cyc[c].ev0

----------------------------------------------------------------------------
(* Properties of the sender *)

\* the promise of sendWebhook(n) has settled
Resolved(n) == snd.result[n] \in {"true", "false", "threw"}

\* doSendWebhook: after a 429 answer one more POST, after the back-off the
\* sink asked for, and its answer decides
C15_SenderRetriesOnce ==
    \A n \in Notifs :
        /\ snd.requests[n] <= 2
        /\ (snd.first[n] = "429" /\ Resolved(n))
              => /\ snd.requests[n] = 2
                 /\ (snd.result[n] = "true") <=> (snd.second[n] = "ok")
                 /\ Truthy(snd.header[n])
                       => snd.waited[n] = BigInt(snd.header[n]) * 1000

\* a 429 with retry-after: 2 was followed, 2 s later, by a retry that went through
C15_SenderWitness ==
    \E n \in Notifs :
        /\ snd.first[n] = "429"
        /\ snd.header[n] = <<2>>
        /\ snd.waited[n] = 2000
        /\ snd.second[n] = "ok"
        /\ snd.result[n] = "true"

\* C15: a notification whose POST the sink answers with 429 is sent exactly
\* once more, after the retry-after time given by the sink; the result is
\* true iff that retry succeeds; there is never a third POST.  This for
\* every notifier of the repository: doSendWebhook and postToDiscord.
C15_RateLimitRetryOnce ==
    /\ C15_SenderRetriesOnce
    /\ \A n \in Notifs : snd.ptdFirst[n] = "429" => snd.ptdRequests[n] = 2

\* C16: after a failure that is not a rate limit (a status neither OK nor
\* 429, or a rejected fetch, on the first POST or on the retry) no further
\* POST is sent for the notification and its result is false; nothing is
\* thrown to the caller.
C16_NoRetryOnOtherFailure ==
    /\ snd.res # "threw"
    /\ \A n \in Notifs :
          /\ snd.result[n] # "threw"
          /\ snd.first[n] \in {"error", "throw"}
                => /\ snd.requests[n] = 1
                   /\ snd.second[n] = "none"
                   /\ Resolved(n) => snd.result[n] = "false"
          /\ (snd.first[n] = "429" /\ snd.second[n] \in {"429", "error", "throw"})
                => /\ snd.requests[n] = 2
                   /\ Resolved(n) => snd.result[n] = "false"
          /\ (~snd.url /\ Resolved(n))
                => snd.requests[n] = 0 /\ snd.result[n] = "false"

\* one notification was lost to a rejected fetch, another to an error
\* status on its retry; both callers got false
C16_Witness ==
    \E n, m \in Notifs :
        /\ snd.first[n] = "throw"
        /\ snd.requests[n] = 1
        /\ snd.result[n] = "false"
        /\ snd.first[m] = "429"
        /\ snd.second[m] = "error"
        /\ snd.requests[m] = 2
        /\ snd.result[m] = "false"
        /\ snd.pc = "idle"

----------------------------------------------------------------------------
(* Properties of the in-memory monitor *)

\* C17: failure isolation per event: a cycle whose fetches were answered
\* goes through its whole batch, whatever happened to the delivery of an
\* event (error status or rejected fetch): every fetched event is attempted.
C17_FailureIsolation ==
    (mem.pc = "done" /\ MemBatch # <<>>) => mem.sent = MemBatch

----------------------------------------------------------------------------
(* Properties of the order of delivery *)

\* C18: within one poll cycle the delivery attempts, operations and
\* deployments taken together, are made in non-decreasing position order.
C18_AttemptsAscending ==
    \A c \in Cycles :
        \A x, y \in 1..Len(cyc[c].sent) :
            x < y => BigInt(cyc[c].sent[x].blockNumber)
                        <= BigInt(cyc[c].sent[y].blockNumber)

----------------------------------------------------------------------------
(* Properties of the loop *)

\* C19: with the store unreachable when the monitor starts (redis.ping
\* rejects), the monitor still runs its poll loop: poll gets called.
C19_PollsWithoutStore ==
    mainPc = "failed" => \E c \in Cycles : cyc[c].pc # "idle"

\* a fetch or a store operation of cycle c failed, or every delivery so far did
Failed(c) == cyc[c].threw \/ (cyc[c].sent # <<>> /\ ~anyDelivered)

\* C20: the loop does not halt on an error of the steady state: after a
\* cycle in which a fetch, a store operation or a delivery failed, the timer
\* fires again and a further cycle is started.
C20_LoopGoesOn ==
    \A c \in 1..(MaxCycles - 1) :
        (cyc[c].pc = "done" /\ Failed(c)) ~> (cyc[c + 1].pc # "idle")

\* a cycle ended in the catch on a store failure after it had written a
\* record, and the cycle after it ran and made an attempt
C20_Witness ==
    \E c \in 1..(MaxCycles - 1) :
        /\ cyc[c].pc = "returned"
        /\ cyc[c].threw
        /\ cyc[c].rejected = {}
        /\ cyc[c + 1].pc = "done"
        /\ cyc[c + 1].sent # <<>>

----------------------------------------------------------------------------
(* Properties of scopes and of identity *)

\* call j is made at the watermark of its scope
CallAtWatermark(j) ==
    /\ calls[j].wmBefore # Null
    /\ BigInt(calls[j].blockNumber) = BigInt(calls[j].wmBefore)

\* an earlier call in the scope of call j passed the same event id
RecordedInScope(j) ==
    \E i \in 1..(j - 1) :
        /\ calls[i].wmKey = calls[j].wmKey
        /\ calls[i].eventId = calls[j].eventId
        /\ calls[i].ret

\* the event id had a record before any call was made for it
HadRecordAtStart(id) ==
    calls[Min({i \in 1..Len(calls) : calls[i].eventId = id})].existed

\* C21: scopes partition watermarks and dedup records: a call leaves the
\* watermark of every other scope alone, and a call at the watermark of its
\* scope is turned down only on a record written by a call in that same
\* scope, never on one written by a call in another scope.
C21_ScopePartition ==
    \A j \in 1..Len(calls) :
        /\ calls[j].others
        /\ (CallAtWatermark(j) /\ ~calls[j].ret /\ ~HadRecordAtStart(calls[j].eventId))
              => RecordedInScope(j)

\* C22: identity is per variant: when a cycle that ran through attempted an
\* event, the event of the other variant with the same id at the same
\* position in its batch has had a delivery attempt too.
C22_IdentityPerVariant ==
    \A c \in Cycles :
        Completed(c) =>
            \A e1, e2 \in Range(Batch(c)) :
                (/\ e1.id = e2.id
                 /\ e1.blockNumber = e2.blockNumber
                 /\ e1.kind # e2.kind
                 /\ e1 \in Range(cyc[c].sent))
                    => attempts[e2] >= 1

\* the current event of cycle c has not been through filter and notifier yet
Processing(c) == cyc[c].pc \in {"snGet", "snExists", "snSetEv", "snSetWm", "notify"}

\* (C23 as stated: while an event of the batch is still to be filtered and
\* notified, every watermark has its value from the start of the cycle)
C23_ChangedOnlyAfterBatch ==
    \A c \in Cycles : Processing(c) => wm = cyc[c].wm0

\* C23: in the Redis-backed monitor a watermark is changed only inside
\* shouldNotify: every change is the write of the position of the event a
\* cycle is processing, under the key of that event's scope, after the
\* event passed the filter and before its delivery attempt.
C23_ChangedInsideShouldNotify ==
    [][\A k \in WmKeys :
          wm'[k] # wm[k] =>
              \E c \in Cycles :
                  /\ cyc[c].pc = "snSetWm"
                  /\ cyc'[c].pc = "notify"
                  /\ cyc[c].i <= Len(Batch(c))
                  /\ ScopeOf(Item(c)) = k
                  /\ wm'[k] = Item(c).blockNumber
                  /\ attempts' = attempts]_vars

\* a cycle has moved the watermark for the event it is about to hand to the
\* notifier, with more events of its batch to come
C23_Witness ==
    \E c \in Cycles :
        /\ cyc[c].pc = "notify"
        /\ cyc[c].i < Len(Batch(c))
        /\ Advances(cyc[c].watermark, Item(c).blockNumber)
        /\ wm[ScopeOf(Item(c))] = Item(c).blockNumber
        /\ wm # cyc[c].wm0

----------------------------------------------------------------------------
(* Properties of the sender's pacing and queue *)

\* C24: any two POSTs in a row that the sender makes to the webhook, a
\* rate-limit retry included, leave at least MIN_INTERVAL_MS apart.
C24_MinInterval ==
    snd.minGap >= 0 => snd.minGap >= MIN_INTERVAL_MS

----------------------------------------------------------------------------
(* Properties of single shouldNotify calls *)

\* C25: with the watermark of its scope unset, a shouldNotify call returns
\* what it returns with the watermark stored as '0', for every event id and
\* position (reading the watermark changes nothing: the unset key stays
\* unset when the call returns false).
C25_UnsetIsZero ==
    \A i \in 1..Len(calls) :
        calls[i].wmBefore = Null =>
            /\ calls[i].ret = Passes(P0, calls[i].existed, calls[i].blockNumber)
            /\ (~calls[i].ret => calls[i].wmAfter = Null)

\* C26: a shouldNotify call that returned true left a live dedup record for
\* its event id, and the watermark of its scope at the larger of the
\* watermark it found (zero if unset) and its position.
C26_TrueWritesRecordAndMax ==
    \A i \in 1..Len(calls) :
        calls[i].ret =>
            /\ calls[i].live
            /\ calls[i].wmAfter # Null
            /\ BigInt(calls[i].wmAfter) =
                  Max({WmValue(calls[i].wmBefore), BigInt(calls[i].blockNumber)})

\* calls returned true above the watermark, at the watermark, and with the
\* watermark unset
C26_Witness ==
    /\ \E i \in 1..Len(calls) :
          /\ calls[i].ret
          /\ calls[i].wmBefore # Null
          /\ BigInt(calls[i].blockNumber) > BigInt(calls[i].wmBefore)
    /\ \E i \in 1..Len(calls) :
          /\ calls[i].ret
          /\ calls[i].wmBefore # Null
          /\ BigInt(calls[i].blockNumber) = BigInt(calls[i].wmBefore)
    /\ \E i \in 1..Len(calls) : calls[i].ret /\ calls[i].wmBefore = Null

\* C27: a shouldNotify call that returned false changed no watermark and no
\* dedup record.
C27_FalseChangesNothing ==
    \A i \in 1..Len(calls) : ~calls[i].ret => calls[i].same

\* calls returned false below the watermark and on a record at the watermark
C27_Witness ==
    /\ \E i \in 1..Len(calls) :
          /\ ~calls[i].ret
          /\ calls[i].wmBefore # Null
          /\ BigInt(calls[i].blockNumber) < BigInt(calls[i].wmBefore)
    /\ \E i \in 1..Len(calls) :
          /\ ~calls[i].ret
          /\ calls[i].existed
          /\ calls[i].wmBefore # Null
          /\ BigInt(calls[i].blockNumber) = BigInt(calls[i].wmBefore)

IsPrefix(p, q) == Len(p) <= Len(q) /\ \A x \in 1..Len(p) : p[x] = q[x]

\* POSTs of doSendWebhook awaited at this moment
InFlight == IF snd.pc \in {"fetch", "backoff"} THEN 1 ELSE 0

\* C28: however the sendWebhook calls fall, at most one processSendQueue
\* loop runs and at most one doSendWebhook is in flight, items enter
\* doSendWebhook in the order they were queued, no promise is resolved
\* twice, the queue is empty whenever the processing flag is false, and
\* every queued item is in the end sent and its promise resolved.
C28_SendQueue ==
    /\ [](/\ snd.loops <= 1
          /\ InFlight <= snd.loops
          /\ snd.processing = (snd.loops = 1)
          /\ IsPrefix(snd.order, snd.enq)
          /\ \A n \in Notifs : snd.resolves[n] <= 1
          /\ \A n \in Notifs : Resolved(n) <=> snd.resolves[n] = 1
          /\ (~snd.processing => snd.sendQueue = <<>>))
    /\ \A n \in Notifs :
          (snd.result[n] = "queued") ~>
              (Resolved(n) /\ \E x \in 1..Len(snd.order) : snd.order[x] = n)

\* every item was sent and resolved, in the order queued, one of them
\* queued while the loop was running; the loop is over
C28_Witness ==
    /\ snd.behind
    /\ Len(snd.enq) = MaxNotifs
    /\ snd.order = snd.enq
    /\ \A n \in Notifs : Resolved(n) /\ snd.resolves[n] = 1
    /\ ~snd.processing
    /\ snd.sendQueue = <<>>

----------------------------------------------------------------------------
(* Properties of the cycle's scope and of the order of its steps *)

\* events that have had a delivery attempt
Notified == {e \in DOMAIN attempts : attempts[e] >= 1}

\* C29: every event a cycle processes is handed to shouldNotify under the
\* scope whose watermark the cycle read for its queries, and a cycle that
\* has read its watermark and not yet notified anything fetches from a
\* position at least as high as every position notified by the cycles
\* before it.
C29_ScopeConsistency ==
    \A c \in Cycles :
        /\ Processing(c) => ScopeOf(Item(c)) = PollScope
        /\ cyc[c].pc = "fetch" =>
              \A e \in Notified : BigInt(cyc[c].lastBlock) >= BigInt(e.blockNumber)

\* C30: for an event that is notified the record is written first, then the
\* watermark is advanced, then delivery is attempted: when a cycle is about
\* to hand an event to the notifier, the event has a live dedup record and
\* the watermark of its scope is at or above its position.
C30_RecordAndWatermarkBeforeDelivery ==
    \A c \in Cycles :
        cyc[c].pc = "notify" =>
            /\ Exists(Item(c).id)
            /\ wm[ScopeOf(Item(c))] # Null
            /\ BigInt(wm[ScopeOf(Item(c))]) >= BigInt(Item(c).blockNumber)

----------------------------------------------------------------------------
(* Properties of the backlog and of the in-memory monitor *)

C32_MemNoDuplicatePost ==
    \A e \in AllEvents : mem.posts[e] <= 1

====
